---------------------------- MODULE Spec2Model ----------------------------
(***************************************************************************)
(* A model of goreplace (src/main.go): the go.mod parser, the dependency   *)
(* filter, the local path resolver, the go.mod writer and the main flow    *)
(* that chains them.                                                       *)
(*                                                                         *)
(* A Go string is modelled as a sequence of one-character strings, so the  *)
(* operators of Go's strings package are computed character by character.  *)
(***************************************************************************)
EXTENDS Integers, Sequences, FiniteSets, TLC

VARIABLES
    pc,            \* position of the process in main / replaceInGoMod
    flagSet,       \* which of -h/-help/-version was given ("none" if none)
    args,          \* flag.Args(): the positional arguments
    gopath,        \* os.Getenv("GOPATH")
    exists,        \* the paths for which os.Stat succeeds
    fs,            \* the working directory: file name -> [present, data]
    modContent,    \* main: the text read from go.mod
    dependencies,  \* main: the parsed records
    origins,       \* ghost: for each record, the index of the line it came from
    replaces,      \* main: the replaced-set
    matched,       \* main: the filtered paths
    selInput,      \* what the operator typed at the selection prompt
    selected,      \* main: the selected module path
    confirm,       \* what the operator typed at the confirmation prompt
    localPath,     \* main: the resolved local path
    probed,        \* ghost: the paths os.Stat was called on, in order
    named,         \* the paths named by findLocalPath's error
    content,       \* replaceInGoMod: the text read from go.mod
    rigErr,        \* replaceInGoMod: the error it returns ("nil" if none)
    out,           \* the last message printed
    exitCode,      \* the process' exit code (-1 while running)
    reads,         \* ghost: number of os.ReadFile("go.mod") calls
    writes,        \* ghost: number of times go.mod was replaced
    dirAtCall,     \* ghost: fs when replaceInGoMod was called
    reparsed,      \* the replaced-set of a parse of the rewritten go.mod
    steps          \* ghost: the steps of main that ran, in order

vars == <<pc, flagSet, args, gopath, exists, fs, modContent, dependencies,
          origins, replaces, matched, selInput, selected, confirm, localPath,
          probed, named, content, rigErr, out, exitCode, reads, writes,
          dirAtCall, reparsed, steps>>

---------------------------------------------------------------------------
(* Bounds of the model. *)

\* The largest number of lines of a generated manifest.
MaxLines == 3

---------------------------------------------------------------------------
(* String literals of the program. *)

maxInputLen == 256

RequireOpen == <<"r","e","q","u","i","r","e"," ","(">>
RequirePrefix == <<"r","e","q","u","i","r","e"," ">>
ReplacePrefix == <<"r","e","p","l","a","c","e"," ">>
Arrow == <<"=",">">>
Indirect == <<"i","n","d","i","r","e","c","t">>
CommentMark == <<"/","/">>
CloseParen == <<")">>
Newline == <<"\n">>
SrcDir == <<"s","r","c">>

---------------------------------------------------------------------------
(* Go's strings package, on sequences of characters. *)

\* The white space characters that have no escape in a string: vertical tab
\* (U+000B), next line (U+0085) and no-break space (U+00A0).
VerticalTab == ""
NextLine == ""
NoBreakSpace == " "

\* unicode.IsSpace: '\t', '\n', '\v', '\f', '\r', ' ', U+0085 and U+00A0 are all
\* the white space below U+0100; the characters of the model are ASCII and
\* these.
IsSpace(c) ==
    c \in {" ", "\t", "\n", "\r", "\f", VerticalTab, NextLine, NoBreakSpace}

\* The number of bytes of a character in UTF-8.
Utf8Width(c) == IF c \in {NextLine, NoBreakSpace} THEN 2 ELSE 1

\* len(s) of a Go string: its number of bytes
ByteLen(s) == Len(s) + Cardinality({ i \in DOMAIN s : Utf8Width(s[i]) = 2 })

RECURSIVE TrimLeftSpace(_)
TrimLeftSpace(s) ==
    IF s # <<>> /\ IsSpace(Head(s)) THEN TrimLeftSpace(Tail(s)) ELSE s

RECURSIVE TrimRightSpace(_)
TrimRightSpace(s) ==
    IF s # <<>> /\ IsSpace(s[Len(s)])
    THEN TrimRightSpace(SubSeq(s, 1, Len(s) - 1))
    ELSE s

\* strings.TrimSpace
TrimSpace(s) == TrimRightSpace(TrimLeftSpace(s))

\* strings.HasPrefix
HasPrefix(s, prefix) ==
    Len(s) >= Len(prefix) /\ SubSeq(s, 1, Len(prefix)) = prefix

\* strings.TrimPrefix
TrimPrefix(s, prefix) ==
    IF HasPrefix(s, prefix) THEN SubSeq(s, Len(prefix) + 1, Len(s)) ELSE s

\* strings.Index: the 0-based offset of the first occurrence, or -1
RECURSIVE IndexFrom(_, _, _)
IndexFrom(s, substr, i) ==
    IF i + Len(substr) > Len(s) THEN -1
    ELSE IF SubSeq(s, i + 1, i + Len(substr)) = substr THEN i
    ELSE IndexFrom(s, substr, i + 1)

Index(s, substr) == IndexFrom(s, substr, 0)

\* strings.Contains
Contains(s, substr) == Index(s, substr) >= 0

\* strings.Split, for a non-empty separator
RECURSIVE Split(_, _)
Split(s, sep) ==
    LET i == Index(s, sep) IN
    IF i < 0 THEN <<s>>
    ELSE <<SubSeq(s, 1, i)>> \o Split(SubSeq(s, i + Len(sep) + 1, Len(s)), sep)

\* strings.Fields: the maximal runs of non-space characters
RECURSIVE FieldsFrom(_, _)
FieldsFrom(s, cur) ==
    IF s = <<>> THEN (IF cur = <<>> THEN <<>> ELSE <<cur>>)
    ELSE IF IsSpace(Head(s))
         THEN (IF cur = <<>> THEN <<>> ELSE <<cur>>) \o FieldsFrom(Tail(s), <<>>)
         ELSE FieldsFrom(Tail(s), Append(cur, Head(s)))

Fields(s) == FieldsFrom(s, <<>>)

RECURSIVE JoinWith(_, _)
JoinWith(parts, sep) ==
    IF parts = <<>> THEN <<>>
    ELSE IF Len(parts) = 1 THEN parts[1]
    ELSE parts[1] \o sep \o JoinWith(Tail(parts), sep)

---------------------------------------------------------------------------
(* The manifest parser. *)

NoDep == [ok |-> FALSE, Path |-> <<>>, Version |-> <<>>]

\* A variant of parseRequireLine that cuts the comment before it looks for
\* "indirect".
parseRequireLine_CommentFirst(line) ==
    LET idx == Index(line, CommentMark)
        l2 == IF idx # -1 THEN TrimSpace(SubSeq(line, 1, idx)) ELSE line
        parts == Fields(l2)
    IN  IF Contains(l2, Indirect) THEN NoDep
        ELSE IF Len(parts) < 2 THEN NoDep
        ELSE [ok |-> TRUE, Path |-> parts[1], Version |-> parts[2]]

parseRequireLine(line) ==
    IF Contains(line, Indirect) THEN NoDep
    ELSE LET idx == Index(line, CommentMark)
             l2 == IF idx # -1 THEN TrimSpace(SubSeq(line, 1, idx)) ELSE line
             parts == Fields(l2)
         IN  IF Len(parts) < 2 THEN NoDep
             ELSE [ok |-> TRUE, Path |-> parts[1], Version |-> parts[2]]

extractReplacePath(line) ==
    LET parts == Split(line, Arrow) IN
    IF Len(parts) < 2 THEN <<>>
    ELSE TrimSpace(TrimPrefix(parts[1], ReplacePrefix))

Dep(d) == [Path |-> d.Path, Version |-> d.Version]

\* The loop of parseGoMod over lines[i..]; acc carries dependencies, replaces
\* and, for each dependency, the index of its line (origins).
RECURSIVE parseLines(_, _, _, _)
parseLines(lines, i, inRequire, acc) ==
    IF i > Len(lines) THEN acc
    ELSE
    LET line == TrimSpace(lines[i]) IN
    IF line = <<>> THEN parseLines(lines, i + 1, inRequire, acc)
    ELSE IF HasPrefix(line, RequireOpen) THEN parseLines(lines, i + 1, TRUE, acc)
    ELSE IF HasPrefix(line, RequirePrefix) /\ ~inRequire THEN
        LET dep == parseRequireLine(TrimPrefix(line, RequirePrefix)) IN
        parseLines(lines, i + 1, inRequire,
            IF dep.ok
            THEN [acc EXCEPT !.dependencies = Append(@, Dep(dep)),
                             !.origins = Append(@, i)]
            ELSE acc)
    ELSE IF inRequire /\ line = CloseParen THEN parseLines(lines, i + 1, FALSE, acc)
    ELSE IF inRequire THEN
        LET dep == parseRequireLine(line) IN
        parseLines(lines, i + 1, inRequire,
            IF dep.ok
            THEN [acc EXCEPT !.dependencies = Append(@, Dep(dep)),
                             !.origins = Append(@, i)]
            ELSE acc)
    ELSE IF HasPrefix(line, ReplacePrefix) THEN
        LET path == extractReplacePath(line) IN
        parseLines(lines, i + 1, inRequire,
            IF path # <<>>
            THEN [acc EXCEPT !.replaces = @ \cup {path}]
            ELSE acc)
    ELSE parseLines(lines, i + 1, inRequire, acc)

parseGoMod(text) ==
    parseLines(Split(text, Newline), 1, FALSE,
               [dependencies |-> <<>>, origins |-> <<>>, replaces |-> {}])

---------------------------------------------------------------------------
(* The dependency filter. *)

\* A variant of filterDependencies that does not look at the replaced-set.
RECURSIVE filterDependencies_NoReplaces(_, _, _)
filterDependencies_NoReplaces(deps, repl, partialName) ==
    IF deps = <<>> THEN <<>>
    ELSE (IF Contains(Head(deps).Path, partialName)
          THEN <<Head(deps).Path>> ELSE <<>>)
         \o filterDependencies_NoReplaces(Tail(deps), repl, partialName)

RECURSIVE filterDependencies(_, _, _)
filterDependencies(deps, repl, partialName) ==
    IF deps = <<>> THEN <<>>
    ELSE LET dep == Head(deps)
             rest == filterDependencies(Tail(deps), repl, partialName)
         IN  IF dep.Path \in repl THEN rest
             ELSE IF Contains(dep.Path, partialName) THEN <<dep.Path>> \o rest
             ELSE rest

---------------------------------------------------------------------------
(* The local path resolver. *)

IsDigit(c) == c \in {"0", "1", "2", "3", "4", "5", "6", "7", "8", "9"}

\* The number of digits s ends with.
RECURSIVE TrailingDigits(_)
TrailingDigits(s) ==
    IF s # <<>> /\ IsDigit(s[Len(s)])
    THEN 1 + TrailingDigits(SubSeq(s, 1, Len(s) - 1))
    ELSE 0

\* regexp `(/v\d+)$` replaced by "": the match, if any, is the "/v" and the
\* digits the path ends with.
removeVersionFromPath(path) ==
    LET n == TrailingDigits(path)
        k == Len(path) - n
    IN  IF n >= 1 /\ k >= 2 /\ path[k] = "v" /\ path[k - 1] = "/"
        THEN SubSeq(path, 1, k - 2)
        ELSE path

\* The loop of filepath.Clean over the segments of a path.
RECURSIVE CleanSegs(_, _, _)
CleanSegs(segs, rooted, acc) ==
    IF segs = <<>> THEN acc
    ELSE LET s == Head(segs) IN
         IF s = <<>> \/ s = <<".">> THEN CleanSegs(Tail(segs), rooted, acc)
         ELSE IF s = <<".", ".">> THEN
             IF acc # <<>> /\ acc[Len(acc)] # <<".", ".">>
             THEN CleanSegs(Tail(segs), rooted, SubSeq(acc, 1, Len(acc) - 1))
             ELSE IF rooted THEN CleanSegs(Tail(segs), rooted, acc)
             ELSE CleanSegs(Tail(segs), rooted, Append(acc, s))
         ELSE CleanSegs(Tail(segs), rooted, Append(acc, s))

\* filepath.Clean, on a Unix path
Clean(path) ==
    IF path = <<>> THEN <<".">>
    ELSE LET rooted == Head(path) = "/"
             body == JoinWith(CleanSegs(Split(path, <<"/">>), rooted, <<>>), <<"/">>)
             res == (IF rooted THEN <<"/">> ELSE <<>>) \o body
         IN  IF res = <<>> THEN <<".">> ELSE res

\* filepath.Join: the non-empty elements joined by "/", cleaned
PathJoin(elems) ==
    LET nonEmpty == SelectSeq(elems, LAMBDA e : e # <<>>) IN
    IF nonEmpty = <<>> THEN <<>> ELSE Clean(JoinWith(nonEmpty, <<"/">>))

\* A variant of findLocalPath that probes the version-stripped candidate first.
findLocalPath_StrippedFirst(modulePath, root, onDisk) ==
    LET originalPath == PathJoin(<<root, SrcDir, modulePath>>)
        basePath == removeVersionFromPath(modulePath)
        versionlessPath == PathJoin(<<root, SrcDir, basePath>>)
    IN  IF basePath # modulePath /\ versionlessPath \in onDisk
        THEN [ok |-> TRUE, path |-> versionlessPath,
              probed |-> <<versionlessPath>>, named |-> <<>>]
        ELSE IF originalPath \in onDisk
        THEN [ok |-> TRUE, path |-> originalPath,
              probed |-> IF basePath # modulePath
                         THEN <<versionlessPath, originalPath>>
                         ELSE <<originalPath>>,
              named |-> <<>>]
        ELSE [ok |-> FALSE, path |-> <<>>,
              probed |-> IF basePath # modulePath
                         THEN <<versionlessPath, originalPath>>
                         ELSE <<originalPath>>,
              named |-> <<originalPath, versionlessPath>>]

\* A variant of findLocalPath whose error names the module path as given
\* instead of the version-stripped candidate.
findLocalPath_NamesGiven(modulePath, root, onDisk) ==
    LET originalPath == PathJoin(<<root, SrcDir, modulePath>>)
        basePath == removeVersionFromPath(modulePath)
        versionlessPath == PathJoin(<<root, SrcDir, basePath>>)
    IN  IF originalPath \in onDisk
        THEN [ok |-> TRUE, path |-> originalPath,
              probed |-> <<originalPath>>, named |-> <<>>]
        ELSE IF basePath # modulePath /\ versionlessPath \in onDisk
        THEN [ok |-> TRUE, path |-> versionlessPath,
              probed |-> <<originalPath, versionlessPath>>, named |-> <<>>]
        ELSE [ok |-> FALSE, path |-> <<>>,
              probed |-> IF basePath # modulePath
                         THEN <<originalPath, versionlessPath>>
                         ELSE <<originalPath>>,
              named |-> <<originalPath, originalPath>>]

\* findLocalPath; onDisk is the set of paths os.Stat succeeds on.  probed lists
\* the os.Stat calls, named the two paths of the error message.
findLocalPath(modulePath, root, onDisk) ==
    LET originalPath == PathJoin(<<root, SrcDir, modulePath>>)
        basePath == removeVersionFromPath(modulePath)
        versionlessPath == PathJoin(<<root, SrcDir, basePath>>)
    IN  IF originalPath \in onDisk
        THEN [ok |-> TRUE, path |-> originalPath,
              probed |-> <<originalPath>>, named |-> <<>>]
        ELSE IF basePath # modulePath /\ versionlessPath \in onDisk
        THEN [ok |-> TRUE, path |-> versionlessPath,
              probed |-> <<originalPath, versionlessPath>>, named |-> <<>>]
        ELSE [ok |-> FALSE, path |-> <<>>,
              probed |-> IF basePath # modulePath
                         THEN <<originalPath, versionlessPath>>
                         ELSE <<originalPath>>,
              named |-> <<originalPath, versionlessPath>>]

---------------------------------------------------------------------------
(* Selection and confirmation. *)

DigitValue(c) ==
    CASE c = "0" -> 0 [] c = "1" -> 1 [] c = "2" -> 2 [] c = "3" -> 3
      [] c = "4" -> 4 [] c = "5" -> 5 [] c = "6" -> 6 [] c = "7" -> 7
      [] c = "8" -> 8 [] c = "9" -> 9

RECURSIVE DecimalValue(_, _)
DecimalValue(s, acc) ==
    IF s = <<>> THEN acc ELSE DecimalValue(Tail(s), 10 * acc + DigitValue(Head(s)))

RECURSIVE StripZeros(_)
StripZeros(s) ==
    IF s # <<>> /\ Head(s) = "0" THEN StripZeros(Tail(s)) ELSE s

\* a > b for two strings of decimal digits of the same length
RECURSIVE DigitsGreater(_, _)
DigitsGreater(a, b) ==
    IF a = <<>> THEN FALSE
    ELSE IF DigitValue(Head(a)) # DigitValue(Head(b))
         THEN DigitValue(Head(a)) > DigitValue(Head(b))
         ELSE DigitsGreater(Tail(a), Tail(b))

\* The digits of 2^63 - 1 and of 2^63, the bounds of a 64-bit int.
MaxIntDigits ==
    <<"9","2","2","3","3","7","2","0","3","6","8","5","4","7","7","5","8","0","7">>
MinIntDigits ==
    <<"9","2","2","3","3","7","2","0","3","6","8","5","4","7","7","5","8","0","8">>

\* The number written by the digits does not fit a 64-bit int.
OutOfRange(digits, negative) ==
    LET d == StripZeros(digits)
        limit == IF negative THEN MinIntDigits ELSE MaxIntDigits
    IN  \/ Len(d) > Len(limit)
        \/ Len(d) = Len(limit) /\ DigitsGreater(d, limit)

\* strconv.Atoi with a 64-bit int: an optional sign and decimal digits; a
\* syntax error or a range error gives no value.  (TLC computes with 32-bit
\* integers: it evaluates the value of inputs up to 2^31 - 1 only.)
Atoi(s) ==
    LET signed == s # <<>> /\ Head(s) \in {"+", "-"}
        digits == IF signed THEN Tail(s) ELSE s
    IN  IF digits = <<>> \/ \E i \in 1..Len(digits) : ~IsDigit(digits[i])
        THEN [ok |-> FALSE, value |-> 0]
        ELSE IF OutOfRange(digits, signed /\ Head(s) = "-")
        THEN [ok |-> FALSE, value |-> 0]
        ELSE [ok |-> TRUE,
              value |-> IF signed /\ Head(s) = "-"
                        THEN 0 - DecimalValue(digits, 0)
                        ELSE DecimalValue(digits, 0)]

\* selectDependency; input is what reader.ReadString('\n') returns: the data
\* read and whether it ended at end of input (err # nil).
selectDependency(list, input) ==
    IF Len(list) = 1 THEN [ok |-> TRUE, value |-> list[1], prompted |-> FALSE]
    ELSE IF input.eof THEN [ok |-> FALSE, value |-> <<>>, prompted |-> TRUE]
    ELSE LET text == TrimSpace(input.data)
             n == Atoi(text)
         IN  IF ByteLen(text) > maxInputLen
             THEN [ok |-> FALSE, value |-> <<>>, prompted |-> TRUE]
             ELSE IF ~n.ok \/ n.value < 1 \/ n.value > Len(list)
             THEN [ok |-> FALSE, value |-> <<>>, prompted |-> TRUE]
             ELSE [ok |-> TRUE, value |-> list[n.value], prompted |-> TRUE]

\* confirmSelection: the read error is dropped, only the data is looked at
confirmSelection(input) == TrimSpace(input.data) = <<>>

---------------------------------------------------------------------------
(* The manifest writer. *)

\* A variant that writes the new content straight to go.mod.
tmpFile_InPlace == "go.mod"

tmpFile == "go.mod.tmp"

\* fmt.Sprintf("\nreplace %s => %s\n", module, localPath)
newReplace(module, path) ==
    Newline \o ReplacePrefix \o module \o <<" ", "=", ">", " ">> \o path \o Newline

Absent == [present |-> FALSE, data |-> <<>>]
File(data) == [present |-> TRUE, data |-> data]

\* os.Rename(old, new) on the directory d
Rename(d, old, new) ==
    IF old = new THEN d
    ELSE [f \in DOMAIN d |->
            IF f = new THEN d[old] ELSE IF f = old THEN Absent ELSE d[f]]

---------------------------------------------------------------------------
(* The inputs the model draws from. *)

\* Lines of a manifest, for the parser and the filter.
ParseLineSet ==
    { RequireOpen,
      CloseParen,
      <<"\t","a","b"," ","v","1"," ","/","/"," ","i","n","d","i","r","e","c","t">>,
      <<"\t","c","/","i","n","d","i","r","e","c","t"," ","v","1">>,
      <<"r","e","q","u","i","r","e"," ","c"," ","i","n","d","i","r","e","c","t",".","1">>,
      <<"r","e","q","u","i","r","e"," ","a","/","B"," ","v","2">>,
      <<"r","e","q","u","i","r","e"," ","a","/","b"," ","v","1">>,
      <<"r","e","p","l","a","c","e"," ","a","/","B"," ","=",">"," ",".",".","/","b">>,
      <<"\t","a","b"," ","v","1">>,
      <<")"," ","/","/"," ","e","n","d">> }

\* Lines of a manifest, for the writer's round trip.
RoundTripLineSet ==
    { RequireOpen,
      CloseParen,
      <<")"," ","/","/"," ","e","n","d">>,
      <<"\t","a","/","b"," ","v","1">>,
      <<"r","e","q","u","i","r","e"," ","a","/","b"," ","v","1">>,
      <<"r","e","p","l","a","c","e"," ","c"," ","=",">"," ",".",".","/","c">>,
      <<"m","o","d","u","l","e"," ","m">> }

\* The sequences of at most MaxLines lines of a set.
LineSeqs(lineSet) == UNION { [1..n -> lineSet] : n \in 0..MaxLines }

\* The text of a sequence of lines, each followed by a newline.
RECURSIVE TextOf(_)
TextOf(lines) ==
    IF lines = <<>> THEN <<>> ELSE Head(lines) \o Newline \o TextOf(Tail(lines))

\* The same text without the newline of its last line.
TextOfOpen(lines) == JoinWith(lines, Newline)

ParsePartials == { <<"a">>, <<"b">>, <<"a","/","B">>, <<>> }

\* Manifests of the whole-run specification.
MainManifests ==
    { TextOf(<<RequireOpen,
               <<"\t","a","/","b","/","v","2"," ","v","2",".","0">>,
               <<"\t","a","b"," ","v","1">>,
               CloseParen>>),
      TextOf(<<<<"r","e","q","u","i","r","e"," ","a","/","b"," ","v","1">>,
               <<"r","e","p","l","a","c","e"," ","a","/","b"," ","=",">"," ",".",".","/","b">>>>),
      TextOfOpen(<<<<"r","e","q","u","i","r","e"," ","a","/","b"," ","v","1">>>>) }

LongInput == [i \in 1..(maxInputLen + 1) |-> "1"]

\* A number above the range of a 64-bit int.
TooBig == [i \in 1..20 |-> "9"]

MainArgs == { <<>>, <<<<"a">>>>, <<<<"b">>>>, <<LongInput>> }

MainDisk ==
    { <<"/","g","/","s","r","c","/","a","/","b">>,
      <<"/","g","/","s","r","c","/","a","/","b","/","v","2">> }

Line(data) == [asked |-> TRUE, data |-> data \o Newline, eof |-> FALSE]
EndOfInput(data) == [asked |-> TRUE, data |-> data, eof |-> TRUE]
NoInput == [asked |-> FALSE, data |-> <<>>, eof |-> FALSE]

\* Standard input is a terminal: each ReadString('\n') gets the line the
\* operator typed at that prompt, or the end of input.

\* What the operator may type at the selection prompt.
SelectInputs ==
    { Line(<<"1">>), Line(<<"2">>), Line(<<"3">>), Line(<<"x">>),
      Line(<<"\f", "2", NoBreakSpace>>), Line(TooBig),
      Line(LongInput), EndOfInput(<<>>) }

\* What the operator may type at the confirmation prompt.
ConfirmInputs ==
    { Line(<<>>), Line(<<" ">>), Line(<<"\f">>), Line(<<"n">>), EndOfInput(<<>>),
      EndOfInput(<<"y">>) }

ResolveModulePaths ==
    { <<"a","/","b">>, <<"a","/","b","/","v","2">>, <<"a","/","v","2","/","v","3">>,
      <<"a","/","b","v","2">>, <<"a","/","v">>, <<"v","2">>, <<"a","/","v","1","0">>,
      <<"a","/","v","2","/">>, <<"a","/",".","/","v","2">> }

ResolveRoots == { <<"/","g">>, <<"/","g","/">>, <<>> }

\* The candidates a module path and its stripped forms give under a root.
Candidates(modulePath, root) ==
    { PathJoin(<<root, SrcDir, modulePath>>),
      PathJoin(<<root, SrcDir, removeVersionFromPath(modulePath)>>),
      PathJoin(<<root, SrcDir,
                 removeVersionFromPath(removeVersionFromPath(modulePath))>>) }

---------------------------------------------------------------------------
(* The state machine. *)

GoMod == "go.mod"
FileNames == {GoMod, "go.mod.tmp"}

partialName == args[1]

Exit(code, msg) ==
    /\ pc' = "exit"
    /\ exitCode' = code
    /\ out' = msg

\* main, lines 51-74: the flags and the argument
MainStart ==
    /\ pc = "start"
    /\ IF flagSet = "help" THEN Exit(0, "usage")
       ELSE IF flagSet = "version" THEN Exit(0, "version")
       ELSE IF Len(args) < 1 THEN Exit(1, "missing required argument")
       ELSE IF ByteLen(partialName) > maxInputLen THEN Exit(1, "input too long")
       ELSE pc' = "read" /\ UNCHANGED <<exitCode, out>>
    /\ UNCHANGED <<flagSet, args, gopath, exists, fs, modContent, dependencies,
                   origins, replaces, matched, selInput, selected, confirm,
                   localPath, probed, named, content, rigErr, reads, writes,
                   dirAtCall, reparsed, steps>>

\* main, lines 76-80: os.ReadFile("go.mod")
MainRead ==
    /\ pc = "read"
    /\ reads' = reads + 1
    /\ steps' = Append(steps, "read")
    /\ \E ioOk \in BOOLEAN :
         IF fs[GoMod].present /\ ioOk
         THEN /\ modContent' = fs[GoMod].data
              /\ pc' = "parse"
              /\ UNCHANGED <<exitCode, out>>
         ELSE /\ Exit(1, "error reading go.mod")
              /\ UNCHANGED modContent
    /\ UNCHANGED <<flagSet, args, gopath, exists, fs, dependencies, origins,
                   replaces, matched, selInput, selected, confirm, localPath,
                   probed, named, content, rigErr, writes, dirAtCall, reparsed>>

\* main, lines 82-88: parseGoMod, filterDependencies, the no-match exit
MainParseFilter ==
    /\ pc = "parse"
    /\ LET parsed == parseGoMod(modContent)
           found == filterDependencies(parsed.dependencies, parsed.replaces,
                                       partialName)
       IN  /\ dependencies' = parsed.dependencies
           /\ origins' = parsed.origins
           /\ replaces' = parsed.replaces
           /\ matched' = found
           /\ IF Len(found) = 0 THEN Exit(0, "No matches found.")
              ELSE pc' = "select" /\ UNCHANGED <<exitCode, out>>
    /\ steps' = steps \o <<"parse", "filter">>
    /\ UNCHANGED <<flagSet, args, gopath, exists, fs, modContent, selInput,
                   selected, confirm, localPath, probed, named, content, rigErr,
                   reads, writes, dirAtCall, reparsed>>

\* main, lines 90-94: selectDependency
MainSelect ==
    /\ pc = "select"
    /\ \E input \in SelectInputs :
         LET r == selectDependency(matched, input) IN
         /\ selInput' = IF r.prompted THEN input ELSE NoInput
         /\ IF r.ok
            THEN /\ selected' = r.value
                 /\ pc' = "confirm"
                 /\ UNCHANGED <<exitCode, out>>
            ELSE /\ Exit(1, "selection error")
                 /\ UNCHANGED selected
    /\ steps' = Append(steps, "select")
    /\ UNCHANGED <<flagSet, args, gopath, exists, fs, modContent, dependencies,
                   origins, replaces, matched, confirm, localPath, probed, named,
                   content, rigErr, reads, writes, dirAtCall, reparsed>>

\* main, lines 96-99: confirmSelection
MainConfirm ==
    /\ pc = "confirm"
    /\ \E input \in ConfirmInputs :
         /\ confirm' = input
         /\ IF confirmSelection(input)
            THEN pc' = "resolve" /\ UNCHANGED <<exitCode, out>>
            ELSE Exit(0, "Operation canceled.")
    /\ steps' = Append(steps, "confirm")
    /\ UNCHANGED <<flagSet, args, gopath, exists, fs, modContent, dependencies,
                   origins, replaces, matched, selInput, selected, localPath,
                   probed, named, content, rigErr, reads, writes, dirAtCall,
                   reparsed>>

\* main, lines 101-105: findLocalPath
MainFindLocalPath ==
    /\ pc = "resolve"
    /\ LET r == findLocalPath(selected, gopath, exists) IN
       /\ probed' = r.probed
       /\ named' = r.named
       /\ localPath' = r.path
       /\ IF r.ok
          THEN pc' = "rig_read" /\ UNCHANGED <<exitCode, out>>
          ELSE Exit(1, "local copy not found")
    /\ steps' = Append(steps, "resolve")
    /\ UNCHANGED <<flagSet, args, gopath, exists, fs, modContent, dependencies,
                   origins, replaces, matched, selInput, selected, confirm,
                   content, rigErr, reads, writes, dirAtCall, reparsed>>

RigLeave(e) ==
    /\ rigErr' = e
    /\ pc' = "rig_ret"

\* replaceInGoMod, lines 277-280: os.ReadFile("go.mod")
RigRead ==
    /\ pc = "rig_read"
    /\ dirAtCall' = fs
    /\ reads' = reads + 1
    /\ steps' = Append(steps, "write")
    /\ \E ioOk \in BOOLEAN :
         IF fs[GoMod].present /\ ioOk
         THEN /\ content' = fs[GoMod].data
              /\ pc' = "rig_open"
              /\ UNCHANGED rigErr
         ELSE /\ RigLeave("failed to read go.mod")
              /\ UNCHANGED content
    /\ UNCHANGED <<flagSet, args, gopath, exists, fs, modContent, dependencies,
                   origins, replaces, matched, selInput, selected, confirm,
                   localPath, probed, named, out, exitCode, writes, reparsed>>

\* replaceInGoMod, line 285: os.WriteFile opens the file, creating or
\* truncating it
RigOpenTmp ==
    /\ pc = "rig_open"
    /\ \E ioOk \in BOOLEAN :
         IF ioOk
         THEN /\ fs' = [fs EXCEPT ![tmpFile] = File(<<>>)]
              /\ pc' = "rig_write"
              /\ UNCHANGED rigErr
         ELSE /\ RigLeave("failed to write temp file")
              /\ UNCHANGED fs
    /\ UNCHANGED <<flagSet, args, gopath, exists, modContent, dependencies,
                   origins, replaces, matched, selInput, selected, confirm,
                   localPath, probed, named, content, out, exitCode, reads,
                   writes, dirAtCall, reparsed, steps>>

\* append(content, newReplace...), line 285
newContent == content \o newReplace(selected, localPath)

\* replaceInGoMod, line 285: os.WriteFile writes; the bytes reach the file
\* in one or more pieces
RigWrite ==
    /\ pc = "rig_write"
    /\ \E n \in (Len(fs[tmpFile].data) + 1)..Len(newContent) :
         fs' = [fs EXCEPT ![tmpFile] = File(SubSeq(newContent, 1, n))]
    /\ UNCHANGED <<pc, flagSet, args, gopath, exists, modContent, dependencies,
                   origins, replaces, matched, selInput, selected, confirm,
                   localPath, probed, named, content, rigErr, out, exitCode,
                   reads, writes, dirAtCall, reparsed, steps>>

\* replaceInGoMod, line 285: os.WriteFile closes the file and returns nil
RigCloseTmp ==
    /\ pc = "rig_write"
    /\ fs[tmpFile].data = newContent
    /\ pc' = "rig_rename"
    /\ UNCHANGED <<flagSet, args, gopath, exists, fs, modContent, dependencies,
                   origins, replaces, matched, selInput, selected, confirm,
                   localPath, probed, named, content, rigErr, out, exitCode,
                   reads, writes, dirAtCall, reparsed, steps>>

\* replaceInGoMod, lines 285-287: the write or the close fails; the file
\* opened stays as it is
RigWriteFail ==
    /\ pc = "rig_write"
    /\ RigLeave("failed to write temp file")
    /\ UNCHANGED <<flagSet, args, gopath, exists, fs, modContent, dependencies,
                   origins, replaces, matched, selInput, selected, confirm,
                   localPath, probed, named, content, out, exitCode, reads,
                   writes, dirAtCall, reparsed, steps>>

\* replaceInGoMod, lines 289-293: os.Rename, which replaces go.mod in one step
\* or fails and changes nothing
RigRename ==
    /\ pc = "rig_rename"
    /\ \E ioOk \in BOOLEAN :
         IF ioOk
         THEN /\ fs' = Rename(fs, tmpFile, GoMod)
              /\ writes' = writes + 1
              /\ RigLeave("nil")
         ELSE /\ RigLeave("failed to rename temp file")
              /\ UNCHANGED <<fs, writes>>
    /\ UNCHANGED <<flagSet, args, gopath, exists, modContent, dependencies,
                   origins, replaces, matched, selInput, selected, confirm,
                   localPath, probed, named, content, out, exitCode, reads,
                   dirAtCall, reparsed, steps>>

RigPcs == {"rig_read", "rig_open", "rig_write", "rig_rename"}

\* The process is killed while it is in replaceInGoMod.
Crash ==
    /\ pc \in RigPcs
    /\ pc' = "crashed"
    /\ UNCHANGED <<flagSet, args, gopath, exists, fs, modContent, dependencies,
                   origins, replaces, matched, selInput, selected, confirm,
                   localPath, probed, named, content, rigErr, out, exitCode,
                   reads, writes, dirAtCall, reparsed, steps>>

\* main, lines 107-112: the outcome of replaceInGoMod
MainFinish ==
    /\ pc = "rig_ret"
    /\ IF rigErr # "nil" THEN Exit(1, "failed to update go.mod")
       ELSE Exit(0, "Added replace")
    /\ UNCHANGED <<flagSet, args, gopath, exists, fs, modContent, dependencies,
                   origins, replaces, matched, selInput, selected, confirm,
                   localPath, probed, named, content, rigErr, reads, writes,
                   dirAtCall, reparsed, steps>>

\* parseGoMod applied to the go.mod that replaceInGoMod wrote (what the next
\* run of main does at line 82).
Reparse ==
    /\ pc = "rig_ret"
    /\ rigErr = "nil"
    /\ reparsed' = parseGoMod(fs[GoMod].data).replaces
    /\ pc' = "reparsed"
    /\ UNCHANGED <<flagSet, args, gopath, exists, fs, modContent, dependencies,
                   origins, replaces, matched, selInput, selected, confirm,
                   localPath, probed, named, content, rigErr, out, exitCode,
                   reads, writes, dirAtCall, steps>>

---------------------------------------------------------------------------
(* Initial states. *)

\* What has no value before main starts.
Blank ==
    /\ modContent = <<>>
    /\ dependencies = <<>>
    /\ origins = <<>>
    /\ replaces = {}
    /\ matched = <<>>
    /\ selInput = NoInput
    /\ selected = <<>>
    /\ confirm = NoInput
    /\ localPath = <<>>

Untouched ==
    /\ probed = <<>>
    /\ named = <<>>
    /\ content = <<>>
    /\ rigErr = "nil"
    /\ out = ""
    /\ exitCode = -1
    /\ writes = 0
    /\ dirAtCall = fs
    /\ reparsed = {}

\* A whole run of main.
Init ==
    /\ pc = "start"
    /\ flagSet \in {"none", "help", "version"}
    /\ args \in MainArgs
    /\ gopath = <<"/","g">>
    /\ exists \in SUBSET MainDisk
    /\ \E text \in MainManifests, there \in BOOLEAN :
         fs = [f \in FileNames |->
                 IF f = GoMod /\ there THEN File(text) ELSE Absent]
    /\ Blank
    /\ Untouched
    /\ reads = 0
    /\ steps = <<>>

Next ==
    \/ MainStart
    \/ MainRead
    \/ MainParseFilter
    \/ MainSelect
    \/ MainConfirm
    \/ MainFindLocalPath
    \/ RigRead
    \/ RigOpenTmp
    \/ RigWrite
    \/ RigCloseTmp
    \/ RigWriteFail
    \/ RigRename
    \/ Crash
    \/ MainFinish

Spec == Init /\ [][Next]_vars

\* main has read a manifest and is about to parse and filter it.
InitParse ==
    /\ pc = "parse"
    /\ flagSet = "none"
    /\ \E p \in ParsePartials : args = <<p>>
    /\ gopath = <<"/","g">>
    /\ exists = {}
    /\ \E lines \in LineSeqs(ParseLineSet) :
         /\ modContent = TextOf(lines)
         /\ fs = [f \in FileNames |->
                    IF f = GoMod THEN File(TextOf(lines)) ELSE Absent]
    /\ dependencies = <<>>
    /\ origins = <<>>
    /\ replaces = {}
    /\ matched = <<>>
    /\ selInput = NoInput
    /\ selected = <<>>
    /\ confirm = NoInput
    /\ localPath = <<>>
    /\ Untouched
    /\ reads = 1
    /\ steps = <<"read">>

NextParse == MainParseFilter

SpecParse == InitParse /\ [][NextParse]_vars

\* main has parsed `require <module> v1`, selected the module and got the
\* confirmation.
AfterConfirm(text, module) ==
    /\ flagSet = "none"
    /\ args = <<module>>
    /\ modContent = text
    /\ fs = [f \in FileNames |-> IF f = GoMod THEN File(text) ELSE Absent]
    /\ dependencies = parseGoMod(text).dependencies
    /\ origins = parseGoMod(text).origins
    /\ replaces = parseGoMod(text).replaces
    /\ matched = filterDependencies(parseGoMod(text).dependencies,
                                    parseGoMod(text).replaces, module)
    /\ selInput = NoInput
    /\ selected = module
    /\ confirm = Line(<<>>)
    /\ reads = 1

\* main is about to resolve the selected module.
InitResolve ==
    /\ pc = "resolve"
    /\ gopath \in ResolveRoots
    /\ \E module \in ResolveModulePaths :
         /\ AfterConfirm(RequirePrefix \o module \o <<" ","v","1">> \o Newline,
                         module)
         /\ exists \in SUBSET Candidates(module, gopath)
    /\ localPath = <<>>
    /\ Untouched
    /\ steps = <<"read", "parse", "filter", "select", "confirm">>

NextResolve == MainFindLocalPath

SpecResolve == InitResolve /\ [][NextResolve]_vars

RoundTripModule == <<"a","/","b">>

\* main is about to call replaceInGoMod for a module that is the only match.
InitRoundTrip ==
    /\ pc = "rig_read"
    /\ gopath = <<"/","g">>
    /\ \E lines \in LineSeqs(RoundTripLineSet), closed \in BOOLEAN :
         LET text == IF closed THEN TextOf(lines) ELSE TextOfOpen(lines) IN
         /\ AfterConfirm(text, RoundTripModule)
         /\ matched = <<RoundTripModule>>
    /\ localPath = PathJoin(<<gopath, SrcDir, RoundTripModule>>)
    /\ exists = {localPath}
    /\ probed = <<localPath>>
    /\ named = <<>>
    /\ content = <<>>
    /\ rigErr = "nil"
    /\ out = ""
    /\ exitCode = -1
    /\ writes = 0
    /\ dirAtCall = fs
    /\ reparsed = {}
    /\ steps = <<"read", "parse", "filter", "select", "confirm", "resolve">>

NextRoundTrip ==
    \/ RigRead
    \/ RigOpenTmp
    \/ RigWrite
    \/ RigCloseTmp
    \/ RigWriteFail
    \/ RigRename
    \/ Crash
    \/ Reparse

SpecRoundTrip == InitRoundTrip /\ [][NextRoundTrip]_vars

---------------------------------------------------------------------------
(* Properties. *)

\* A step of main has run.
Did(step) == \E i \in DOMAIN steps : steps[i] = step

Range(seq) == { seq[i] : i \in DOMAIN seq }

ManifestLines == Split(modContent, Newline)

ReplaceWord == <<"r","e","p","l","a","c","e">>

\* The line reads `replace A => B`.
IsReplaceLine(line) ==
    LET f == Fields(line) IN Len(f) = 4 /\ f[1] = ReplaceWord /\ f[3] = Arrow

\* C1: once the manifest is parsed and filtered, for every line of the form
\* `replace A => B`, wherever it stands, A is in the replaced-set and the
\* filter returns no entry equal to A.
C1_ReplaceLineSuppresses ==
    Did("filter") =>
        \A i \in DOMAIN ManifestLines :
            IsReplaceLine(ManifestLines[i]) =>
                LET A == Fields(ManifestLines[i])[2] IN
                /\ A \in replaces
                /\ \A k \in DOMAIN matched : matched[k] # A

\* C2: when replaceInGoMod(M, L) succeeded on a manifest without a replace
\* directive for M, parsing the new go.mod gives a replaced-set containing M.
C2_RoundTrip ==
    pc = "reparsed" => selected \in reparsed

\* C3: no record comes from a line that contains "indirect".
C3_IndirectExcluded ==
    Did("parse") =>
        \A k \in DOMAIN dependencies :
            ~Contains(ManifestLines[origins[k]], Indirect)

\* C3's case: a require block holds an entry whose only "indirect" is in its
\* trailing comment, and the parse produced a record from another line.
C3_Witness ==
    /\ Did("parse")
    /\ Len(dependencies) >= 1
    /\ \E i \in DOMAIN ManifestLines :
         /\ i > 1
         /\ TrimSpace(ManifestLines[i - 1]) = RequireOpen
         /\ Index(ManifestLines[i], CommentMark) >= 0
         /\ Index(ManifestLines[i], Indirect) > Index(ManifestLines[i], CommentMark)

\* The path holds the partial name as a literal substring.
HasLiteral(path, partial) ==
    \E off \in 0..Len(path) :
        /\ off + Len(partial) <= Len(path)
        /\ \A j \in 1..Len(partial) : path[off + j] = partial[j]

\* The indices of the records the filter has to return.
Qualifying ==
    { i \in DOMAIN dependencies :
        /\ dependencies[i].Path \notin replaces
        /\ HasLiteral(dependencies[i].Path, partialName) }

\* C4: the filter returns exactly the paths of the records that are not
\* replaced and contain the partial name, in input order, duplicates kept.
C4_FilterExact ==
    Did("filter") =>
        /\ Len(matched) = Cardinality(Qualifying)
        /\ \A i \in Qualifying :
             matched[Cardinality({ j \in Qualifying : j <= i })]
                 = dependencies[i].Path

\* C4's case: one record is returned while another, which contains the partial
\* name too, is left out because it is replaced.
C4_Witness ==
    /\ Did("filter")
    /\ Len(matched) >= 1
    /\ \E i \in DOMAIN dependencies :
         /\ dependencies[i].Path \in replaces
         /\ HasLiteral(dependencies[i].Path, partialName)

\* The paths that are `path` without one trailing /v<digits> segment.
StrippedForms(path) ==
    { SubSeq(path, 1, k) : k \in
        { k \in 0..Len(path) :
            /\ k + 3 <= Len(path)
            /\ path[k + 1] = "/"
            /\ path[k + 2] = "v"
            /\ \A j \in (k + 3)..Len(path) : IsDigit(path[j]) } }

Versioned == PathJoin(<<gopath, SrcDir, selected>>)

StrippedCandidates ==
    { PathJoin(<<gopath, SrcDir, b>>) : b \in StrippedForms(selected) }

\* C5: the versioned candidate is probed first and returned whenever it
\* exists; another path is returned only when the versioned candidate does not
\* exist, and it is then an existing candidate of the module path without one
\* trailing /v<digits> segment.
C5_Precedence ==
    Did("resolve") =>
        /\ probed[1] = Versioned
        /\ (Versioned \in exists => localPath = Versioned /\ pc = "rig_read")
        /\ (pc = "rig_read" /\ localPath # Versioned =>
              /\ Versioned \notin exists
              /\ localPath \in StrippedCandidates
              /\ localPath \in exists)

\* C5's case: both candidates exist and the versioned one was returned.
C5_Witness ==
    /\ Did("resolve")
    /\ Versioned \in exists
    /\ \E c \in StrippedCandidates : c # Versioned /\ c \in exists
    /\ localPath = Versioned

\* C6: when no candidate exists, findLocalPath returns no path and its error
\* names exactly the candidates that were probed.
C6_NotFoundNamesProbed ==
    (Did("resolve") /\ ({Versioned} \cup StrippedCandidates) \cap exists = {}) =>
        /\ pc = "exit"
        /\ exitCode = 1
        /\ out = "local copy not found"
        /\ localPath = <<>>
        /\ Len(named) = 2
        /\ Range(probed) = {Versioned} \cup StrippedCandidates
        /\ Range(named) = Range(probed)

\* C6's case: the module path has a version suffix, none of the two candidates
\* exists and the error names two different paths.
C6_Witness ==
    /\ Did("resolve")
    /\ exitCode = 1
    /\ Len(named) = 2
    /\ named[1] # named[2]
    /\ Len(probed) = 2

Original == dirAtCall[GoMod]

WithReplace == File(Original.data \o newReplace(selected, localPath))

\* C7: from the call of replaceInGoMod on, go.mod holds the original content
\* or the original content followed by the complete replace line; a returned
\* error leaves it unchanged and success leaves the new content.
C7_AtomicWrite ==
    Did("write") =>
        /\ fs[GoMod] \in {Original, WithReplace}
        /\ (rigErr # "nil" => fs[GoMod] = Original)
        /\ (pc = "rig_ret" /\ rigErr = "nil" => fs[GoMod] = WithReplace)

\* C7's case: the process was killed while the temporary file held a part of
\* the new content.
C7_Witness ==
    /\ pc = "crashed"
    /\ fs[tmpFile].present
    /\ Len(fs[tmpFile].data) > 0
    /\ Len(fs[tmpFile].data) < Len(newContent)
    /\ fs[GoMod] = Original

BareAck == Line(<<>>)

\* C8: the run goes on to resolve only when the confirmation is the bare
\* acknowledgement; any other confirmation ends the run with exit code zero
\* and go.mod unchanged.
C8_OnlyBareAckProceeds ==
    Did("confirm") =>
        IF confirm = BareAck
        THEN pc # "exit" \/ Did("resolve")
        ELSE /\ pc = "exit"
             /\ exitCode = 0
             /\ ~Did("resolve")
             /\ fs = dirAtCall

StepOrder == <<"read", "parse", "filter", "select", "confirm", "resolve", "write">>

\* C9: the steps run in order, go.mod is read exactly once and written at
\* most once (once on success), and the text appended to is the text parsed.
C9_OneReadOneWrite ==
    /\ Len(steps) <= Len(StepOrder)
    /\ steps = SubSeq(StepOrder, 1, Len(steps))
    /\ reads <= 1
    /\ writes <= 1
    /\ (Did("read") => reads = 1)
    /\ (pc = "exit" /\ out = "Added replace" => writes = 1)
    /\ (pc \in {"rig_open", "rig_write", "rig_rename"} => content = modContent)

\* C10: when replaceInGoMod returns an error, the directory holds the same
\* files with the same content as before the call.
C10_CleanupOnFailure ==
    (pc = "rig_ret" /\ rigErr # "nil") => fs = dirAtCall

===========================================================================
